---------------------------- MODULE Spec2Model ----------------------------
(***************************************************************************)
(* Model of src/main.py: the election-result scraper (district locator,    *)
(* row extractor, district stat extractor, party vote extractor,           *)
(* aggregator and CSV export).                                             *)
(*                                                                         *)
(* Representation.  A Python str is a sequence of tokens.  A token is one  *)
(* character for the characters whose identity the code depends on: the    *)
(* decimal digits, "+", "-", "_", the blank " " and "nbsp" (U+00A0); any   *)
(* other token ("A", "registered", "N/A", "volby.cz", ...) stands for a    *)
(* run of characters holding no digit and no white space.  A dict is a     *)
(* function whose DOMAIN is its key set.  A <td> is a record of its class  *)
(* list, its headers list, its text and its first <a> (a sequence of       *)
(* length 0 or 1); a <tr> is the sequence of its <td>s; a page is the      *)
(* sequence of its <tr>s (an index page: the sequence of its tables).      *)
(* Python's None is the empty tuple <<>>.                                  *)
(***************************************************************************)
EXTENDS Integers, Sequences, FiniteSets, TLC

VARIABLES
    pc,                   \* position of main(): "main", "locate", "fetch_list", "loop", "done", "exit"
                          \* ("fetch_district_data" while the extraction loop runs on its own)
    argv,                 \* sys.argv
    input_value,          \* main: input_value
    csv_file,             \* main: csv_file
    url,                  \* main: url
    rows,                 \* main: rows = soup.find_all('tr') of the district list page
    idx,                  \* main: position of the for loop over rows (1-based, next row)
    all_district_data,    \* main: all_district_data
    all_ordered_parties,  \* main: all_ordered_parties
    ordered_party_names,  \* main: ordered_party_names
    csv_out,              \* the file on disk: <<>> or <<[header, body, complete]>>
    exit_msg,             \* which message the run ended with ("" while running or on success)
    requests_log,         \* every HTTP request made, in order: [method, url, outcome]
    visited,              \* per fetched district: [row, page, party_list, ordered_parties]
    writes,               \* number of calls of write_to_csv
    x_row,                \* extraction loop: the <tr> handled last
    x_result,             \* extraction loop: extract_party_data(x_row)
    x_prev,               \* extraction loop: party_list before x_row
    x_party_list,         \* extraction loop: party_list
    x_count               \* extraction loop: number of rows handled

main_vars == <<pc, argv, input_value, csv_file, url, rows, idx, all_district_data,
               all_ordered_parties, ordered_party_names, csv_out, exit_msg,
               requests_log, visited, writes>>
x_vars == <<x_row, x_result, x_prev, x_party_list, x_count>>
vars == <<main_vars, x_vars>>

---------------------------------------------------------------------------
(* Bounds of the model. *)
MaxRows == 2          \* <tr>s of a district list page
MaxPageRows == 3      \* <tr>s of a district results page
MaxIndexRows == 3     \* <tr>s of a table of the index page
MaxCells == 3         \* <td>s of a <tr> handed to the extraction loop
MaxExtract == 2       \* rows handled by the extraction loop

---------------------------------------------------------------------------
(* Python str, list and dict primitives. *)

None == <<>>

Str(w) == <<w>>

Digits == {"0", "1", "2", "3", "4", "5", "6", "7", "8", "9"}

DigitVal(c) ==
    CASE c = "0" -> 0 [] c = "1" -> 1 [] c = "2" -> 2 [] c = "3" -> 3 [] c = "4" -> 4
      [] c = "5" -> 5 [] c = "6" -> 6 [] c = "7" -> 7 [] c = "8" -> 8 [] c = "9" -> 9

IsSpace(c) == c \in {" ", "nbsp"}

RECURSIVE lstrip(_)
lstrip(s) == IF s # <<>> /\ IsSpace(Head(s)) THEN lstrip(Tail(s)) ELSE s

RECURSIVE rstrip(_)
rstrip(s) ==
    IF s # <<>> /\ IsSpace(s[Len(s)]) THEN rstrip(SubSeq(s, 1, Len(s) - 1)) ELSE s

\* str.strip(): leading and trailing white space, U+00A0 included
strip(s) == rstrip(lstrip(s))

IsNotNbsp(c) == c # "nbsp"

\* str.replace('\xa0', '')
replace_nbsp(s) == SelectSeq(s, IsNotNbsp)

\* str.isdigit()
isdigit(s) == s # <<>> /\ \A k \in 1..Len(s) : s[k] \in Digits

LowerTok(c) ==
    CASE c = "PRAHA" -> "praha" [] c = "Praha" -> "praha"
      [] c = "Brno" -> "brno" [] c = "KLADNO" -> "kladno"
      [] OTHER -> c

\* str.lower()
lower(s) == [k \in 1..Len(s) |-> LowerTok(s[k])]

\* "sub in s" for a one-token sub
contains(s, tok) == \E k \in 1..Len(s) : s[k] = tok

\* s.startswith(tok) for a one-token prefix
startswith(s, tok) == s # <<>> /\ s[1] = tok

\* s.lower().endswith('.csv')
endswith_csv(s) == s # <<>> /\ LowerTok(s[Len(s)]) = ".csv"

RECURSIVE DecimalValue(_)
DecimalValue(s) ==
    IF s = <<>> THEN 0
    ELSE IF s[Len(s)] = "_" THEN DecimalValue(SubSeq(s, 1, Len(s) - 1))
    ELSE 10 * DecimalValue(SubSeq(s, 1, Len(s) - 1)) + DigitVal(s[Len(s)])

\* the digits part of an int literal: digits, single "_" only between digits
IsDigitsBody(s) ==
    /\ s # <<>>
    /\ \A k \in 1..Len(s) : s[k] \in Digits \cup {"_"}
    /\ s[1] \in Digits
    /\ s[Len(s)] \in Digits
    /\ \A k \in 1..(Len(s) - 1) : ~(s[k] = "_" /\ s[k + 1] = "_")

IntBody(s) == IF s # <<>> /\ s[1] \in {"+", "-"} THEN Tail(s) ELSE s

\* the most digits int() converts: sys.get_int_max_str_digits() as CPython
\* sets it by default (3.11 on, and 3.10.7 on)
INT_MAX_STR_DIGITS == 4300

\* the digits of an int literal, "_" not counted
CountDigits(s) == Cardinality({k \in 1..Len(s) : s[k] \in Digits})

\* int(s) raises ValueError: s is no int literal, or has more digits than
\* int() converts
int_raises(s) ==
    LET body == IntBody(strip(s))
    IN ~IsDigitsBody(body) \/ CountDigits(body) > INT_MAX_STR_DIGITS

\* int(s), when it does not raise
int_of(s) ==
    LET t == strip(s) IN
    IF t # <<>> /\ t[1] = "-" THEN 0 - DecimalValue(IntBody(t))
    ELSE DecimalValue(IntBody(t))

Range(s) == {s[k] : k \in 1..Len(s)}

RECURSIVE Concat(_)
Concat(ss) == IF ss = <<>> THEN <<>> ELSE Head(ss) \o Concat(Tail(ss))

\* d[k] = v
DictSet(d, k, v) == [key \in (DOMAIN d) \cup {k} |-> IF key = k THEN v ELSE d[key]]

\* d.get(k, default)
DictGet(d, k, default) == IF k \in DOMAIN d THEN d[k] ELSE default

\* InsertByCode for a descending sort
RECURSIVE InsertByCode_Descending(_, _)
InsertByCode_Descending(s, x) ==
    IF s = <<>> THEN <<x>>
    ELSE IF s[Len(s)][1] >= x[1] THEN Append(s, x)
    ELSE Append(InsertByCode_Descending(SubSeq(s, 1, Len(s) - 1), x), s[Len(s)])

\* the position where x goes into the code-sorted list s: after every
\* element whose code is less than or equal to its own
RECURSIVE InsertByCode(_, _)
InsertByCode(s, x) ==
    IF s = <<>> THEN <<x>>
    ELSE IF s[Len(s)][1] <= x[1] THEN Append(s, x)
    ELSE Append(InsertByCode(SubSeq(s, 1, Len(s) - 1), x), s[Len(s)])

RECURSIVE SortFrom(_, _)
SortFrom(done, rest) ==
    IF rest = <<>> THEN done ELSE SortFrom(InsertByCode(done, Head(rest)), Tail(rest))

\* sort_by_code that leaves the list as accumulated
sort_by_code_unsorted(s) == s

\* list.sort(key=lambda x: x[0]): ascending by code, stable
sort_by_code(s) == SortFrom(<<>>, s)

---------------------------------------------------------------------------
(* BeautifulSoup queries on the page model. *)

TD(class, headers, text) == [class |-> class, headers |-> headers, text |-> text, a |-> <<>>]

TDA(class, text, href) ==
    [class |-> class, headers |-> <<>>, text |-> text, a |-> <<[href |-> href, text |-> text]>>]

\* a multi-valued attribute matches a wanted value when one of its values is
\* the wanted one or its values joined by blanks are; wanted is the token
\* list of the wanted string
AttrMatches(values, wanted) ==
    \/ Len(wanted) = 1 /\ wanted[1] \in Range(values)
    \/ values = wanted

H1 == <<"t1sa1", "t1sb1">>
H2 == <<"t2sa1", "t2sb1">>

\* row.find_all('td', class_=c)
find_all_class(row, c) == SelectSeq(row, LAMBDA td : AttrMatches(td.class, <<c>>))

\* row.find('td', {'class': 'cislo', 'headers': ['t1sa1 t1sb1', 't2sa1 t2sb1']})
find_cislo_cell(row) ==
    LET hits == SelectSeq(row, LAMBDA td :
                    /\ AttrMatches(td.class, <<"cislo">>)
                    /\ (AttrMatches(td.headers, H1) \/ AttrMatches(td.headers, H2)))
    IN IF hits = <<>> THEN None ELSE <<hits[1]>>

\* row.find('td', class_='overflow_name')
find_name_cell(row) ==
    LET hits == find_all_class(row, "overflow_name")
    IN IF hits = <<>> THEN None ELSE <<hits[1]>>

\* soup.find('td', {'headers': h}) over the whole document
soup_find_headers(page, h) ==
    LET hits == SelectSeq(Concat(page), LAMBDA td : AttrMatches(td.headers, <<h>>))
    IN IF hits = <<>> THEN None ELSE <<hits[1]>>

---------------------------------------------------------------------------
(* The extractors. *)

StatText(cell) == IF cell # None THEN replace_nbsp(strip(cell[1].text)) ELSE Str("N/A")

extract_district_stats(page) ==
    [k \in {Str("registered"), Str("envelopes"), Str("valid")} |->
        CASE k = Str("registered") -> StatText(soup_find_headers(page, "sa2"))
          [] k = Str("envelopes") -> StatText(soup_find_headers(page, "sa3"))
          [] k = Str("valid") -> StatText(soup_find_headers(page, "sa6"))]

\* extract_party_data taking the votes from the first numeric cell
extract_party_data_first_numeric(row) ==
    LET cislo_cell == find_cislo_cell(row)
        party_name_cell == find_name_cell(row)
        vote_cells == find_all_class(row, "cislo")
    IN IF cislo_cell # None /\ party_name_cell # None /\ Len(vote_cells) > 1
       THEN IF int_raises(strip(cislo_cell[1].text))
            THEN None
            ELSE << int_of(strip(cislo_cell[1].text)),
                    strip(party_name_cell[1].text),
                    replace_nbsp(strip(vote_cells[1].text)) >>
       ELSE None

extract_party_data(row) ==
    LET cislo_cell == find_cislo_cell(row)
        party_name_cell == find_name_cell(row)
        vote_cells == find_all_class(row, "cislo")
    IN IF cislo_cell # None /\ party_name_cell # None /\ Len(vote_cells) > 1
       THEN IF int_raises(strip(cislo_cell[1].text))
            THEN None
            ELSE << int_of(strip(cislo_cell[1].text)),
                    strip(party_name_cell[1].text),
                    replace_nbsp(strip(vote_cells[2].text)) >>
       ELSE None

\* fetch_district_data, lines 186-190: the triples of the page, in document order
RECURSIVE party_list_of(_)
party_list_of(page) ==
    IF page = <<>> THEN <<>>
    ELSE LET party_data == extract_party_data(Head(page))
         IN (IF party_data # None THEN <<party_data>> ELSE <<>>) \o party_list_of(Tail(page))

\* fetch_district_data, lines 194-195
RECURSIVE fold_votes(_, _)
fold_votes(district_data, party_list) ==
    IF party_list = <<>> THEN district_data
    ELSE fold_votes(DictSet(district_data, Head(party_list)[2], Head(party_list)[3]),
                    Tail(party_list))

\* fetch_district_data once the page is fetched: <<district_data, ordered_parties>>
fetch_district_data(page) ==
    LET party_list == sort_by_code(party_list_of(page))
    IN << fold_votes(extract_district_stats(page), party_list),
          [k \in 1..Len(party_list) |-> <<party_list[k][1], party_list[k][2]>>] >>

\* dedupe_names without the check of seen
RECURSIVE dedupe_names_all(_, _)
dedupe_names_all(pairs, names) ==
    IF pairs = <<>> THEN names
    ELSE dedupe_names_all(Tail(pairs), Append(names, Head(pairs)[2]))

\* main, lines 275-280
RECURSIVE dedupe_names(_, _)
dedupe_names(pairs, names) ==
    IF pairs = <<>> THEN names
    ELSE dedupe_names(Tail(pairs),
                      IF Head(pairs)[2] \notin Range(names)
                      THEN Append(names, Head(pairs)[2]) ELSE names)

\* main, lines 274-280
global_party_order(pairs) == dedupe_names(sort_by_code(pairs), <<>>)

\* write_to_csv, line 210
csv_columns(names) ==
    <<Str("code"), Str("location"), Str("registered"), Str("envelopes"), Str("valid")>> \o names

\* write_to_csv, lines 216-218: the cells of one row
csv_row(entry, columns) == [k \in 1..Len(columns) |-> DictGet(entry, columns[k], Str("0"))]

\* process_district_row, when the first cell holds an anchor
process_district_row(row) ==
    << strip(row[1].a[1].text),
       strip(row[2].text),
       <<"https://www.volby.cz/pls/ps2017nss/">> \o row[1].a[1].href >>

---------------------------------------------------------------------------
(* The inputs: command lines and the pages the site serves. *)

SeqsUpTo(S, n) == UNION {[1..k -> S] : k \in 0..n}

BASE_URL == <<"https://www.volby.cz/pls/ps2017nss/", "ps3?xjazyk=CZ">>

UrlArg == <<"http", "volby.cz", "ps32">>
NumericArg == <<"1", "2", "3", "4", "5">>
CsvArg == <<"out", ".csv">>

Argvs ==
    { <<Str("main.py"), UrlArg, CsvArg>>,
      <<Str("main.py"), <<"PRAHA">>, CsvArg>>,
      <<Str("main.py"), <<"KLADNO">>, CsvArg>>,
      <<Str("main.py"), NumericArg, CsvArg>>,
      <<Str("main.py"), <<"volby.cz", "ps32">>, CsvArg>>,
      <<Str("main.py"), <<>>, CsvArg>>,
      <<Str("main.py"), <<"PRAHA">>, <<"out", ".txt">>>>,
      <<Str("main.py"), <<"PRAHA">>>> }

\* rows of a table of the index page
IndexRowSet ==
    { <<TD(<<>>, <<>>, <<"1">>), TD(<<>>, <<>>, <<" ", "Praha", " ">>),
        TD(<<>>, <<>>, <<>>), TDA(<<>>, <<"X">>, <<"ps32">>)>>,
      <<TD(<<>>, <<>>, <<"2">>), TD(<<>>, <<>>, <<"Brno">>),
        TD(<<>>, <<>>, <<>>), TDA(<<>>, <<"X">>, <<"ps33">>)>>,
      <<TD(<<>>, <<>>, <<"1">>), TD(<<>>, <<>>, <<"Praha">>), TD(<<>>, <<>>, <<>>)>>,
      <<TD(<<>>, <<>>, <<"1">>), TD(<<>>, <<>>, <<"Praha">>),
        TD(<<>>, <<>>, <<>>), TD(<<>>, <<>>, <<"X">>)>> }

IndexTables == SeqsUpTo(IndexRowSet, MaxIndexRows)

IndexPages ==
    {<<>>} \cup {<<t>> : t \in IndexTables}
           \cup {<<<<>>, t>> : t \in SeqsUpTo(IndexRowSet, MaxIndexRows - 1)}

\* rows of a district list page: two districts, a header row without <td>,
\* a row whose first cell carries a second class beside the marker, and a
\* marked row without anchor
ListRowSet ==
    { <<TDA(<<"cislo">>, <<"5", "0", "1">>, <<"ps311?obec=501">>),
        TD(<<"overflow_name">>, <<>>, <<" ", "District1">>)>>,
      <<TDA(<<"cislo">>, <<"5", "0", "2">>, <<"ps311?obec=502">>),
        TD(<<"overflow_name">>, <<>>, <<"District2">>)>>,
      <<>>,
      <<TDA(<<"cislo", "center">>, <<"5", "0", "3">>, <<"ps311?obec=503">>),
        TD(<<>>, <<>>, <<"District3">>)>>,
      <<TD(<<"cislo">>, <<>>, <<"-">>), TD(<<>>, <<>>, <<"-">>)>> }

ListPages == SeqsUpTo(ListRowSet, MaxRows)

\* a party row of a results page: code cell, name cell, votes cell
PartyRow(hdr, code, name, votes) ==
    << TD(<<"cislo">>, hdr, code),
       TD(<<"overflow_name">>, <<>>, name),
       TD(<<"cislo">>, <<"t1sa2", "t1sb3">>, votes) >>

\* the row of the statistics table
StatRow ==
    << TD(<<"cislo">>, <<"sa2">>, <<"1", "nbsp", "0", "0", "0">>),
       TD(<<"cislo">>, <<"sa3">>, <<"9", "0", "0">>),
       TD(<<"cislo">>, <<"sa6">>, <<" ", "8", "5", "0">>) >>

\* the party rows of the results pages: two names under code 1, one of them
\* also under code 2, and under code 2 a party named like a column of the
\* statistics
PartyRowSet ==
    { PartyRow(H1, <<"1">>, <<"Party A">>, <<"2", "0", "0">>),
      PartyRow(H2, <<"1">>, <<"Party B">>, <<"0">>),
      PartyRow(H1, <<"2">>, <<"Party B">>, <<"1", "nbsp", "0", "0", "0">>),
      PartyRow(H2, <<"2">>, <<"registered">>, <<"7">>) }

\* the party rows of one page: at least one, no party code and no party name
\* twice on a page
PartyRowSeqs(n) ==
    { q \in SeqsUpTo(PartyRowSet, n) :
        /\ q # <<>>
        /\ \A j, k \in 1..Len(q) :
              j < k => q[j][1].text # q[k][1].text /\ q[j][2].text # q[k][2].text }

\* the results pages a fetch may be answered with, of up to MaxPageRows rows:
\* a page without rows, or the row of the statistics table followed by
\* party rows
Pages == {<<>>} \cup {<<StatRow>> \o q : q \in PartyRowSeqs(MaxPageRows - 1)}

FetchOutcomes == {"ok", "status", "exception"}

---------------------------------------------------------------------------
(* District Locator. *)

\* get_url_from_name, lines 113-124, on the fetched index page:
\* <<"found", url>>, <<"crash">> (cells[3].find('a') is None) or <<"not_found">>
RECURSIVE scan_rows(_, _)
scan_rows(trs, district_name) ==
    IF trs = <<>> THEN <<"next">>
    ELSE LET cells == Head(trs) IN
         IF Len(cells) > 3 /\ lower(strip(cells[2].text)) = lower(district_name)
         THEN IF cells[4].a = <<>> THEN <<"crash">>
              ELSE <<"found", <<"https://www.volby.cz/pls/ps2017nss/">> \o cells[4].a[1].href>>
         ELSE scan_rows(Tail(trs), district_name)

RECURSIVE scan_tables(_, _)
scan_tables(tables, district_name) ==
    IF tables = <<>> THEN <<"not_found">>
    ELSE LET t == Head(tables)
             r == scan_rows(SubSeq(t, 3, Len(t)), district_name)
         IN IF r = <<"next">> THEN scan_tables(Tail(tables), district_name) ELSE r

---------------------------------------------------------------------------
(* main(). *)

Request(method, u, outcome) == [method |-> method, url |-> u, outcome |-> outcome]

Init ==
    /\ pc = "main"
    /\ argv \in Argvs
    /\ input_value = <<>>
    /\ csv_file = <<>>
    /\ url = <<>>
    /\ rows = <<>>
    /\ idx = 0
    /\ all_district_data = <<>>
    /\ all_ordered_parties = <<>>
    /\ ordered_party_names = <<>>
    /\ csv_out = <<>>
    /\ exit_msg = ""
    /\ requests_log = <<>>
    /\ visited = <<>>
    /\ writes = 0
    /\ x_row = <<>>
    /\ x_result = None
    /\ x_prev = <<>>
    /\ x_party_list = <<>>
    /\ x_count = 0

\* the run ends: with the message printed before sys.exit(1), or with
\* "exception" when an exception nobody catches ends it
Exit(msg) == pc' = "exit" /\ exit_msg' = msg

\* print(msg) and sys.exit(1).  A print that raises (a stdout that cannot
\* encode or take the message) is caught nowhere: the run ends with that
\* exception, the message unwritten
ExitWithMessage(msg) == \E written \in BOOLEAN : Exit(IF written THEN msg ELSE "exception")

\* main, line 246: validate_arguments
ValidateArguments ==
    /\ pc = "main"
    /\ IF Len(argv) # 3
       THEN ExitWithMessage("usage") /\ UNCHANGED <<input_value, csv_file>>
       ELSE IF \/ argv[2] = <<>>
               \/ contains(argv[2], "volby.cz") /\ ~startswith(argv[2], "http")
               \/ ~endswith_csv(argv[3])
            THEN ExitWithMessage("usage") /\ UNCHANGED <<input_value, csv_file>>
            ELSE /\ input_value' = argv[2]
                 /\ csv_file' = argv[3]
                 /\ pc' = "locate"
                 /\ exit_msg' = exit_msg
    /\ UNCHANGED <<argv, url, rows, idx, all_district_data, all_ordered_parties,
                   ordered_party_names, csv_out, requests_log, visited, writes, x_vars>>

\* main, lines 248-250: url is bound, then validate_url checks it (lines
\* 63-70: a status other than 200 and a RequestException both print and exit)
ValidateUrl ==
    /\ pc = "locate"
    /\ contains(input_value, "volby.cz")
    /\ \E outcome \in FetchOutcomes :
          /\ requests_log' = Append(requests_log, Request("HEAD", input_value, outcome))
          /\ url' = input_value
          /\ IF outcome = "ok"
             THEN pc' = "fetch_list" /\ exit_msg' = exit_msg
             ELSE ExitWithMessage("url_unreachable")
    /\ UNCHANGED <<argv, input_value, csv_file, rows, idx, all_district_data,
                   all_ordered_parties, ordered_party_names, csv_out, visited,
                   writes, x_vars>>

\* main, line 252: get_url_from_name, lines 106-108
NumericName ==
    /\ pc = "locate"
    /\ ~contains(input_value, "volby.cz")
    /\ isdigit(input_value)
    /\ ExitWithMessage("numeric_name")
    /\ UNCHANGED <<argv, input_value, csv_file, url, rows, idx, all_district_data,
                   all_ordered_parties, ordered_party_names, csv_out, requests_log,
                   visited, writes, x_vars>>

\* main, line 252: get_url_from_name, lines 110-124
GetUrlFromName ==
    /\ pc = "locate"
    /\ ~contains(input_value, "volby.cz")
    /\ ~isdigit(input_value)
    /\ \E outcome \in FetchOutcomes, page \in IndexPages :
          /\ requests_log' = Append(requests_log, Request("GET", BASE_URL, outcome))
          /\ IF outcome = "status" THEN ExitWithMessage("fetch_failed") /\ url' = url
             ELSE IF outcome = "exception" THEN Exit("exception") /\ url' = url
             ELSE LET r == scan_tables(page, input_value) IN
                  IF r[1] = "found" THEN url' = r[2] /\ pc' = "fetch_list" /\ exit_msg' = exit_msg
                  ELSE IF r[1] = "crash" THEN Exit("exception") /\ url' = url
                  ELSE ExitWithMessage("not_found") /\ url' = url
    /\ UNCHANGED <<argv, input_value, csv_file, rows, idx, all_district_data,
                   all_ordered_parties, ordered_party_names, csv_out, visited,
                   writes, x_vars>>

\* main, lines 254-258
FetchList ==
    /\ pc = "fetch_list"
    /\ \E outcome \in FetchOutcomes, page \in ListPages :
          /\ requests_log' = Append(requests_log, Request("GET", url, outcome))
          /\ IF outcome = "status" THEN ExitWithMessage("fetch_failed") /\ UNCHANGED <<rows, idx>>
             ELSE IF outcome = "exception" THEN Exit("exception") /\ UNCHANGED <<rows, idx>>
             ELSE rows' = page /\ idx' = 1 /\ pc' = "loop" /\ exit_msg' = exit_msg
    /\ UNCHANGED <<argv, input_value, csv_file, url, all_district_data,
                   all_ordered_parties, ordered_party_names, csv_out, visited,
                   writes, x_vars>>

\* main, line 262
IsDataRow(cells) == Len(cells) > 1 /\ cells[1].class = <<"cislo">>

\* main, lines 260-262: a row that is not a data row
SkipRow ==
    /\ pc = "loop"
    /\ idx <= Len(rows)
    /\ ~IsDataRow(rows[idx])
    /\ idx' = idx + 1
    /\ UNCHANGED <<pc, argv, input_value, csv_file, url, rows, all_district_data,
                   all_ordered_parties, ordered_party_names, csv_out, exit_msg,
                   requests_log, visited, writes, x_vars>>

\* main, line 263: process_district_row raises (cells[0].find('a') is None)
DistrictRowError ==
    /\ pc = "loop"
    /\ idx <= Len(rows)
    /\ IsDataRow(rows[idx])
    /\ rows[idx][1].a = <<>>
    /\ Exit("exception")
    /\ UNCHANGED <<argv, input_value, csv_file, url, rows, idx, all_district_data,
                   all_ordered_parties, ordered_party_names, csv_out, requests_log,
                   visited, writes, x_vars>>

\* DistrictFetchFail that goes on with the next row
DistrictFetchFail_Continue ==
    /\ pc = "loop"
    /\ idx <= Len(rows)
    /\ IsDataRow(rows[idx])
    /\ rows[idx][1].a # <<>>
    /\ \E outcome \in FetchOutcomes \ {"ok"} :
          requests_log' = Append(requests_log,
                                 Request("GET", process_district_row(rows[idx])[3], outcome))
    /\ idx' = idx + 1
    /\ UNCHANGED <<pc, exit_msg, argv, input_value, csv_file, url, rows, all_district_data,
                   all_ordered_parties, ordered_party_names, csv_out, visited,
                   writes, x_vars>>

\* main, lines 263-264: the fetch of a data row's results page fails
\* (fetch_page: a status other than 200, or requests.get raises)
DistrictFetchFail ==
    /\ pc = "loop"
    /\ idx <= Len(rows)
    /\ IsDataRow(rows[idx])
    /\ rows[idx][1].a # <<>>
    /\ \E outcome \in FetchOutcomes \ {"ok"} :
          /\ requests_log' = Append(requests_log,
                                    Request("GET", process_district_row(rows[idx])[3], outcome))
          /\ IF outcome = "status" THEN ExitWithMessage("fetch_failed") ELSE Exit("exception")
    /\ UNCHANGED <<argv, input_value, csv_file, url, rows, idx, all_district_data,
                   all_ordered_parties, ordered_party_names, csv_out, visited,
                   writes, x_vars>>

\* DistrictRow that puts the record in front of the list
DistrictRow_Prepend ==
    /\ pc = "loop"
    /\ idx <= Len(rows)
    /\ IsDataRow(rows[idx])
    /\ rows[idx][1].a # <<>>
    /\ LET r == process_district_row(rows[idx])
       IN \E page \in Pages :
          LET d == fetch_district_data(page)
              district_data == DictSet(DictSet(d[1], Str("code"), r[1]), Str("location"), r[2])
          IN /\ requests_log' = Append(requests_log, Request("GET", r[3], "ok"))
             /\ all_district_data' = <<district_data>> \o all_district_data
             /\ all_ordered_parties' = all_ordered_parties \o d[2]
             /\ visited' = Append(visited, [row |-> idx, page |-> page,
                                            party_list |-> party_list_of(page),
                                            ordered_parties |-> d[2]])
             /\ idx' = idx + 1
    /\ UNCHANGED <<pc, exit_msg, argv, input_value, csv_file, url, rows,
                   ordered_party_names, csv_out, writes, x_vars>>

\* main, lines 263-268: one data row, its results page fetched and merged
DistrictRow ==
    /\ pc = "loop"
    /\ idx <= Len(rows)
    /\ IsDataRow(rows[idx])
    /\ rows[idx][1].a # <<>>
    /\ LET r == process_district_row(rows[idx])
           cislo_value == r[1]
           district_name == r[2]
           second_level_url == r[3]
       IN \E page \in Pages :
          LET d == fetch_district_data(page)
              district_data == DictSet(DictSet(d[1], Str("code"), cislo_value),
                                       Str("location"), district_name)
          IN /\ requests_log' = Append(requests_log, Request("GET", second_level_url, "ok"))
             /\ all_district_data' = Append(all_district_data, district_data)
             /\ all_ordered_parties' = all_ordered_parties \o d[2]
             /\ visited' = Append(visited, [row |-> idx, page |-> page,
                                            party_list |-> party_list_of(page),
                                            ordered_parties |-> d[2]])
             /\ idx' = idx + 1
    /\ UNCHANGED <<pc, exit_msg, argv, input_value, csv_file, url, rows,
                   ordered_party_names, csv_out, writes, x_vars>>

\* write_to_csv, lines 210-218: the lines of the file, the header first
csv_lines(data, names) ==
    LET columns == csv_columns(names)
    IN <<columns>> \o [k \in 1..Len(data) |-> csv_row(data[k], columns)]

\* the file on disk after n of the lines were written: its header, its body,
\* and whether it holds every line (a line cut short counts as not written)
csv_file_of(lines, n) ==
    [header |-> IF n = 0 THEN <<>> ELSE lines[1],
     body |-> SubSeq(lines, 2, n),
     complete |-> n = Len(lines)]

\* write_to_csv: the file written when open() and the writes succeed
write_to_csv(data, names) == csv_file_of(csv_lines(data, names), Len(data) + 1)

\* main, lines 270-272
NoData ==
    /\ pc = "loop"
    /\ idx > Len(rows)
    /\ all_district_data = <<>>
    /\ ExitWithMessage("no_data")
    /\ UNCHANGED <<argv, input_value, csv_file, url, rows, idx, all_district_data,
                   all_ordered_parties, ordered_party_names, csv_out, requests_log,
                   visited, writes, x_vars>>

\* main, lines 274-283: sort, de-duplicate, the print of line 282, then
\* write_to_csv.
\*  - the print of line 282 raises: write_to_csv is not called, the run ends
\*    with that exception;
\*  - open() fails: no file;
\*  - a write fails after open() created the file: the file holds the lines
\*    written before;
\*  - the print of the success message (line 219, inside the try block)
\*    raises after the whole file was written and closed: the complete file
\*    stays;
\*  - after each of these three the except branch prints (line 221) and exits,
\*    and when that print raises too the run ends with its exception;
\*  - or all succeeds.
Export ==
    /\ pc = "loop"
    /\ idx > Len(rows)
    /\ all_district_data # <<>>
    /\ all_ordered_parties' = sort_by_code(all_ordered_parties)
    /\ ordered_party_names' = global_party_order(all_ordered_parties)
    /\ \/ /\ writes' = writes
          /\ csv_out' = csv_out
          /\ Exit("exception")
       \/ /\ writes' = writes + 1
          /\ csv_out' = <<write_to_csv(all_district_data, ordered_party_names')>>
          /\ pc' = "done"
          /\ exit_msg' = exit_msg
       \/ /\ writes' = writes + 1
          /\ csv_out' = csv_out
          /\ ExitWithMessage("csv_error")
       \/ /\ writes' = writes + 1
          /\ \E n \in 0..(Len(all_district_data) + 1) :
                csv_out' = <<csv_file_of(csv_lines(all_district_data, ordered_party_names'), n)>>
          /\ ExitWithMessage("csv_error")
    /\ UNCHANGED <<argv, input_value, csv_file, url, rows, idx, all_district_data,
                   requests_log, visited, x_vars>>

Next ==
    \/ ValidateArguments
    \/ ValidateUrl
    \/ NumericName
    \/ GetUrlFromName
    \/ FetchList
    \/ SkipRow
    \/ DistrictRowError
    \/ DistrictFetchFail
    \/ DistrictRow
    \/ NoData
    \/ Export

Spec == Init /\ [][Next]_vars

---------------------------------------------------------------------------
(* The extraction loop of fetch_district_data, lines 186-190, on its own:  *)
(* rows of any shape arrive one by one.                                     *)

\* the <td>s a row is made of: a numeric code cell of the first variant, a
\* non-numeric code cell of the second variant, a numeric cell of another
\* column, and a party-name cell
ExtractCellSet ==
    { TD(<<"cislo">>, H1, <<" ", "1">>),
      TD(<<"cislo">>, H2, <<"-">>),
      TD(<<"cislo">>, <<"t1sa2", "t1sb3">>, <<"1", "nbsp", "2", "0", "0">>),
      TD(<<"overflow_name">>, <<"t1sa1", "t1sb2">>, <<"Party A", " ">>) }

ExtractRows == SeqsUpTo(ExtractCellSet, MaxCells)

InitExtract ==
    /\ pc = "fetch_district_data"
    /\ argv = <<>>
    /\ input_value = <<>>
    /\ csv_file = <<>>
    /\ url = <<>>
    /\ rows = <<>>
    /\ idx = 0
    /\ all_district_data = <<>>
    /\ all_ordered_parties = <<>>
    /\ ordered_party_names = <<>>
    /\ csv_out = <<>>
    /\ exit_msg = ""
    /\ requests_log = <<>>
    /\ visited = <<>>
    /\ writes = 0
    /\ x_row = <<>>
    /\ x_result = None
    /\ x_prev = <<>>
    /\ x_party_list = <<>>
    /\ x_count = 0

\* fetch_district_data, lines 187-190: one iteration of the loop over the rows
ExtractRow ==
    /\ pc = "fetch_district_data"
    /\ x_count < MaxExtract
    /\ \E row \in ExtractRows :
          LET party_data == extract_party_data(row) IN
          /\ x_row' = row
          /\ x_result' = party_data
          /\ x_prev' = x_party_list
          /\ x_party_list' = IF party_data # None THEN Append(x_party_list, party_data)
                             ELSE x_party_list
          /\ x_count' = x_count + 1
    /\ UNCHANGED main_vars

NextExtract == ExtractRow

SpecExtract == InitExtract /\ [][NextExtract]_vars

---------------------------------------------------------------------------
(* What the claims speak of. *)

Min(S) == CHOOSE c \in S : \A d \in S : c <= d

\* the triples the page of the k-th fetched district emitted, in document order
TriplesOf(k) == visited[k].party_list

\* the (code, name) pairs observed in any district
SeenPairs == UNION {{<<t[1], t[2]>> : t \in Range(TriplesOf(k))} : k \in 1..Len(visited)}

\* the (code, name) pairs observed, in visiting order: district by district,
\* and row by row within a page
ObservedInOrder ==
    Concat([k \in 1..Len(visited) |->
              [j \in 1..Len(TriplesOf(k)) |-> <<TriplesOf(k)[j][1], TriplesOf(k)[j][2]>>]])

\* where a pair is first met in a sequence of pairs
FirstAt(seq, pair) == Min({i \in 1..Len(seq) : seq[i] = pair})

\* the names among (code, name) pairs
NamesOf(pairs) == {q[2] : q \in pairs}

\* for each name among the pairs, the smallest code it is paired with
MinCodes(pairs) == [n \in NamesOf(pairs) |-> Min({q[1] : q \in {r \in pairs : r[2] = n}})]

Perms(n) == {f \in [1..n -> 1..n] : \A a, b \in 1..n : a # b => f[a] # f[b]}

\* the accumulated (code, name) list of a run that visits the districts in the order f
AccumulatedIn(f) == Concat([k \in 1..Len(visited) |-> visited[f[k]].ordered_parties])

\* every visiting order of the districts yields the order this run computed
SameOrderUnderEveryVisitingOrder ==
    \A f \in Perms(Len(visited)) : global_party_order(AccumulatedIn(f)) = ordered_party_names

Exported == writes > 0

PartyA == <<"Party A">>
PartyB == <<"Party B">>

\* the rows of the list page selected as data rows, by position
SelectedRows == SelectSeq([k \in 1..Len(rows) |-> k],
                          LAMBDA k : Len(rows[k]) > 1 /\ rows[k][1].class = <<"cislo">>)

---------------------------------------------------------------------------
(* C1 *)

\* C1 (as stated): once the export is reached, the Global Party Order is the
\* same for every order in which the same districts could have been visited,
\* also when one code appears under two names in different districts.
C1_OrderIndependent == Exported => SameOrderUnderEveryVisitingOrder

\* C1 (amended): when no two distinct party names share their smallest
\* observed code, the Global Party Order is the same for every order in which
\* the districts could have been visited.  In every case the names are
\* ordered by their smallest observed code, and two names that share it are
\* ordered by where the pair of that code and the name is first met in
\* visiting order.
C1_OrderIndependentWithoutSharedCode ==
    Exported =>
        LET MinCode == MinCodes(SeenPairs)
            observed == ObservedInOrder
            met == [n \in DOMAIN MinCode |-> FirstAt(observed, <<MinCode[n], n>>)]
        IN /\ (\A n, m \in DOMAIN MinCode : n # m => MinCode[n] # MinCode[m])
                 => SameOrderUnderEveryVisitingOrder
           /\ Range(ordered_party_names) = DOMAIN MinCode
           /\ \A a, b \in 1..Len(ordered_party_names) :
                 a < b =>
                    LET x == ordered_party_names[a]
                        y == ordered_party_names[b]
                    IN \/ MinCode[x] < MinCode[y]
                       \/ MinCode[x] = MinCode[y] /\ met[x] < met[y]

\* Party B is observed under code 2 in the first district and under code 1
\* in the second, next to a party of code 2: the smallest codes differ, and
\* Party B comes first although the list accumulated starts with (2, Party B)
C1_Witness ==
    /\ pc = "done"
    /\ Len(visited) = 2
    /\ visited[1].ordered_parties = <<<<2, PartyB>>>>
    /\ visited[2].ordered_parties = <<<<1, PartyB>>, <<2, Str("registered")>>>>
    /\ ordered_party_names = <<PartyB, Str("registered")>>

---------------------------------------------------------------------------
(* C2 *)

\* C2: once the export is reached, ordered_party_names holds no name twice,
\* holds exactly the party names of the triples emitted for the districts,
\* and is as long as there are distinct names.
C2_Deduplicated ==
    Exported =>
        LET SeenNames == NamesOf(SeenPairs)
        IN /\ \A a, b \in 1..Len(ordered_party_names) :
                 a # b => ordered_party_names[a] # ordered_party_names[b]
           /\ Range(ordered_party_names) = SeenNames
           /\ Len(ordered_party_names) = Cardinality(SeenNames)

\* one name observed in two districts is kept once
C2_Witness ==
    /\ pc = "done"
    /\ Len(visited) = 2
    /\ <<1, PartyB>> \in Range(visited[1].ordered_parties)
    /\ <<1, PartyB>> \in Range(visited[2].ordered_parties)
    /\ Len(all_ordered_parties) = 2
    /\ ordered_party_names = <<PartyB>>

---------------------------------------------------------------------------
(* C3 *)

\* C3: once the export is reached, whenever name X precedes name Y in
\* ordered_party_names, the smallest code observed for X is at most the
\* smallest code observed for Y.
C3_OrderedByCode ==
    Exported =>
        LET MinCode == MinCodes(SeenPairs)
        IN \A a, b \in 1..Len(ordered_party_names) :
              a < b => MinCode[ordered_party_names[a]] <= MinCode[ordered_party_names[b]]

\* a page listing (2, Party B) before (1, Party A) gives the header order
\* Party A, Party B
C3_Witness ==
    /\ pc = "done"
    /\ Len(visited) = 1
    /\ Len(TriplesOf(1)) = 2
    /\ <<TriplesOf(1)[1][1], TriplesOf(1)[1][2]>> = <<2, PartyB>>
    /\ <<TriplesOf(1)[2][1], TriplesOf(1)[2][2]>> = <<1, PartyA>>
    /\ csv_out[1].header = csv_columns(<<PartyA, PartyB>>)

---------------------------------------------------------------------------
(* C4 *)

\* the vote-count strings the page of district k emitted for a party name
VotesOf(k, name) == {t[3] : t \in {u \in Range(TriplesOf(k)) : u[2] = name}}

\* C4: in the exported file, the cell of district k in the column of a party
\* of the Global Party Order is "0" when the page of district k emitted no
\* triple with that name, and a vote count extracted for that name otherwise.
C4_DefaultFill ==
    csv_out # <<>> =>
        \A k \in 1..Len(csv_out[1].body) :
            \A c \in 1..Len(ordered_party_names) :
                LET cell == csv_out[1].body[k][5 + c]
                    votes == VotesOf(k, ordered_party_names[c])
                IN IF votes = {} THEN cell = Str("0") ELSE cell \in votes

---------------------------------------------------------------------------
(* C5 *)

\* C5: in the exported file, the five fixed cells of district k are the code
\* and the location of its row of the list page and the three results of
\* extract_district_stats on its page.
C5_FixedColumns ==
    csv_out # <<>> =>
        \A k \in 1..Len(csv_out[1].body) :
            LET cells == csv_out[1].body[k]
                row == rows[visited[k].row]
                stats == extract_district_stats(visited[k].page)
            IN /\ cells[1] = strip(row[1].a[1].text)
               /\ cells[2] = strip(row[2].text)
               /\ cells[3] = stats[Str("registered")]
               /\ cells[4] = stats[Str("envelopes")]
               /\ cells[5] = stats[Str("valid")]

---------------------------------------------------------------------------
(* C6 *)

\* C6: a request that failed is the last request of the run, the run has
\* ended without success, and write_to_csv was never called nor a file
\* written.
C6_FetchFailureAborts ==
    \A k \in 1..Len(requests_log) :
        requests_log[k].outcome # "ok" =>
            /\ k = Len(requests_log)
            /\ pc = "exit"
            /\ writes = 0
            /\ csv_out = <<>>

\* the fetch of the second district fails after the first was fetched
C6_Witness ==
    /\ pc = "exit"
    /\ Len(all_district_data) = 1
    /\ requests_log[Len(requests_log)].outcome = "status"
    /\ requests_log[Len(requests_log) - 1].outcome = "ok"
    /\ requests_log[Len(requests_log)].url # requests_log[Len(requests_log) - 1].url

---------------------------------------------------------------------------
(* C7 *)

\* C7: with a purely numeric district name the run makes no request, never
\* reaches the fetches or the export, and ends with the numeric-name message
\* (InvalidInput).
C7_NumericNameRejected ==
    (Len(argv) = 3 /\ argv[2] # <<>> /\ \A k \in 1..Len(argv[2]) : argv[2][k] \in Digits) =>
        /\ requests_log = <<>>
        /\ writes = 0
        /\ csv_out = <<>>
        /\ pc \in {"main", "locate", "exit"}
        /\ pc = "exit" => exit_msg = "numeric_name"

---------------------------------------------------------------------------
(* C8 *)

\* C8: when the fetched list page has no data row, the run only walks the
\* rows and ends with the no-data message (EmptyResult); write_to_csv is
\* never called and no file is written.
C8_EmptyResult ==
    (idx >= 1 /\ SelectedRows = <<>>) =>
        /\ pc = "loop" \/ (pc = "exit" /\ exit_msg = "no_data")
        /\ writes = 0
        /\ csv_out = <<>>

---------------------------------------------------------------------------
(* C9, under SpecExtract *)

IsVariantCodeCell(td) == "cislo" \in Range(td.class) /\ td.headers \in {H1, H2}

\* the row has a code cell of one of the two variants whose text (of the
\* first such cell) is an integer literal, a party-name cell and at least
\* two numeric cells
Qualifies(row) ==
    /\ \E a \in 1..Len(row) :
          /\ IsVariantCodeCell(row[a])
          /\ \A b \in 1..(a - 1) : ~IsVariantCodeCell(row[b])
          /\ ~int_raises(row[a].text)
    /\ \E a \in 1..Len(row) : "overflow_name" \in Range(row[a].class)
    /\ Cardinality({a \in 1..Len(row) : "cislo" \in Range(row[a].class)}) >= 2

\* the text of the second numeric cell of the row
SecondNumericText(row) ==
    LET at == {a \in 1..Len(row) : "cislo" \in Range(row[a].class)}
        second == Min(at \ {Min(at)})
    IN row[second].text

\* C9: a row emits a triple exactly when it qualifies; the code of the triple
\* is an integer, its vote count is the text of the second numeric cell
\* (trimmed, without U+00A0), and it is appended to the list; any other row
\* leaves the list as it was.
C9_TripleExactlyWhenQualified ==
    x_count > 0 =>
        /\ (x_result # None) <=> Qualifies(x_row)
        /\ x_result # None =>
              /\ x_result[1] \in Int
              /\ x_result[3] = replace_nbsp(strip(SecondNumericText(x_row)))
              /\ x_party_list = Append(x_prev, x_result)
        /\ x_result = None => x_party_list = x_prev

\* a row with all three kinds of cell and a non-numeric code, skipped after
\* another row emitted a triple
C9_Witness ==
    /\ x_count = 2
    /\ x_result = None
    /\ find_cislo_cell(x_row) # None
    /\ find_name_cell(x_row) # None
    /\ Len(find_all_class(x_row, "cislo")) > 1
    /\ x_party_list = <<<<1, PartyA, <<"1", "2", "0", "0">>>>>>

---------------------------------------------------------------------------
(* C10 *)

\* the requests of a run that reaches the export: the check of the URL or the
\* fetch of the index page, the list page, then one results page per
\* selected row in row order
ExpectedRequests ==
    <<IF contains(input_value, "volby.cz") THEN Request("HEAD", input_value, "ok")
      ELSE Request("GET", BASE_URL, "ok"),
      Request("GET", url, "ok")>>
    \o [k \in 1..Len(SelectedRows) |->
          Request("GET", <<"https://www.volby.cz/pls/ps2017nss/">>
                           \o rows[SelectedRows[k]][1].a[1].href, "ok")]

\* C10: once the export is reached, the requests made are exactly the list
\* page once and then the results page of each selected row once, in row
\* order; write_to_csv was called once; the records are one per selected
\* row, in row order; the lines of the file follow that order, and a file
\* written to its end holds one line per selected row.
C10_Sequential ==
    Exported =>
        /\ requests_log = ExpectedRequests
        /\ writes = 1
        /\ Len(all_district_data) = Len(SelectedRows)
        /\ \A k \in 1..Len(SelectedRows) :
              /\ visited[k].row = SelectedRows[k]
              /\ all_district_data[k][Str("code")] = strip(rows[SelectedRows[k]][1].a[1].text)
              /\ all_district_data[k][Str("location")] = strip(rows[SelectedRows[k]][2].text)
        /\ csv_out # <<>> =>
              \A k \in 1..Len(csv_out[1].body) :
                  csv_out[1].body[k][1] = strip(rows[SelectedRows[k]][1].a[1].text)
        /\ pc = "done" =>
              /\ csv_out # <<>>
              /\ csv_out[1].complete
              /\ Len(csv_out[1].body) = Len(SelectedRows)

\* two different districts exported in the order of their rows
C10_Witness ==
    /\ pc = "done"
    /\ Len(csv_out[1].body) = 2
    /\ csv_out[1].body[1][1] = <<"5", "0", "2">>
    /\ csv_out[1].body[2][1] = <<"5", "0", "1">>
    /\ Len(requests_log) = 4

=============================================================================
